---- MODULE Spec2Model ----
(***************************************************************************)
(* A state-machine model of the shell tokenizer of parser/src/tokenizer.rs *)
(* (Tokenizer::next_token_until and the TokenParseState it drives).        *)
(*                                                                         *)
(* A string is a sequence of characters; a character is a one-character    *)
(* TLA+ string.  One step of the model is one iteration of the dispatch    *)
(* loop of next_token_until (one arm of its if/else-if chain followed by   *)
(* the end-of-here-document check), or one call of next_token_until.       *)
(* Recursive calls are frames of an explicit call stack.                   *)
(***************************************************************************)
EXTENDS Integers, Sequences, FiniteSets, TLC

VARIABLES
    input,              \* the characters handed to tokenize_str
    shape,              \* how the input was built (the parameters of its form)
    pos,                \* char_reader: index of the next unread character
    cursor,             \* cross_state.cursor
    here_state,         \* cross_state.here_state
    current_here_tags,  \* cross_state.current_here_tags
    stack,              \* the active calls of next_token_until, innermost last
    tokens,             \* the `tokens` vector of tokenize_str
    status,             \* "running", "ok" (Ok), "error" (Err) or "panic"
    error,              \* the error or panic that ended the run
    last_result,        \* the TokenizeResult most recently returned by a call
    items               \* what the top-level calls have yielded so far, in order

vars == << input, shape, pos, cursor, here_state, current_here_tags, stack,
           tokens, status, error, last_result, items >>

(***************************************************************************)
(* Characters                                                              *)
(***************************************************************************)
NL  == "\n"
TAB == "\t"
SP  == " "
BSL == "\\"
SQ  == "'"
DQ  == "\""
BQ  == "bq"            \* the backquote character (U+0060), spelled out
NoChar == "<none>"    \* Option<char>::None
NUL    == "<nul>"     \* '\0', what `c` holds when peek_char gave None

NoToken == [type |-> "None"]
NoPos   == [line |-> 0, column |-> 0]
NoError == [kind |-> "None", pos |-> NoPos]

RECURSIVE Concat(_)
Concat(ss) == IF ss = << >> THEN << >> ELSE Head(ss) \o Concat(Tail(ss))

HasSuffix(s, suf) ==
    /\ Len(suf) <= Len(s)
    /\ SubSeq(s, Len(s) - Len(suf) + 1, Len(s)) = suf

HasPrefixAt(s, i, pre) ==
    /\ i + Len(pre) - 1 <= Len(s)
    /\ SubSeq(s, i, i + Len(pre) - 1) = pre

Contains(s, c) == \E i \in 1..Len(s) : s[i] = c

Last(s) == s[Len(s)]
Front(s) == SubSeq(s, 1, Len(s) - 1)

(***************************************************************************)
(* Free functions                                                          *)
(***************************************************************************)
is_blank(c) == c = SP \/ c = TAB

can_start_operator(c) == c \in {"&", "(", ")", ";", NL, "|", "<", ">"}

is_quoting_char(c) == c \in {BSL, SQ, DQ}

OperatorTable ==
    { <<"&">>, <<"&", "&">>, <<"(">>, <<")">>, <<";">>, <<";", ";">>, <<NL>>,
      <<"|">>, <<"|", "|">>, <<"<">>, <<">">>, <<">", "|">>, <<"<", "<">>,
      <<">", ">">>, <<"<", "&">>, <<">", "&">>, <<"<", "<", "-">>, <<"<", ">">> }

is_operator(s) == s \in OperatorTable

(***************************************************************************)
(* TokenParseState                                                         *)
(***************************************************************************)
QuoteNone == [kind |-> "None", pos |-> NoPos]

TokenParseState_new(start_position, start_offset) ==
    [ start_position      |-> start_position,
      start_offset        |-> start_offset,   \* char_reader offset of start_position
      completed_subtokens |-> << >>,
      subtoken_stack      |-> << >>,
      token_so_far        |-> << >>,
      token_is_operator   |-> FALSE,
      in_escape           |-> FALSE,
      quote_mode          |-> QuoteNone,
      panicked            |-> FALSE ]         \* a panic!() was hit while updating it

WordSubtoken(kind) == [kind |-> kind, raw |-> << >>, subtokens |-> << >>, tokens |-> << >>]

started_token(st) == st.token_so_far # << >>

should_start_text_subtoken(st) ==
    \/ st.subtoken_stack = << >>
    \/ Last(st.subtoken_stack).kind = "DoubleQuotedSequence"

\* mutant: the text reaches the innermost open subtoken only
append_str_TopOnly(st, s) ==
    [st EXCEPT !.token_so_far = @ \o s,
               !.panicked = @ \/ st.subtoken_stack = << >>,
               !.subtoken_stack = [i \in 1..Len(@) |->
                                      IF i = Len(@) THEN [@[i] EXCEPT !.raw = @ \o s] ELSE @[i]]]

append_str(st, s) ==
    [st EXCEPT !.token_so_far = @ \o s,
               !.panicked = @ \/ st.subtoken_stack = << >>,
               !.subtoken_stack = [i \in 1..Len(@) |-> [@[i] EXCEPT !.raw = @ \o s]]]

append_char(st, c) == append_str(st, <<c>>)

unquoted(st) == ~st.in_escape /\ st.quote_mode.kind = "None"

delimit_current_subtoken(st) ==
    IF st.subtoken_stack = << >> THEN st
    ELSE LET current_subtoken == Last(st.subtoken_stack)
             rest == Front(st.subtoken_stack)
         IN  IF rest # << >> /\ Last(rest).kind = "DoubleQuotedSequence"
             THEN [st EXCEPT !.subtoken_stack =
                      [rest EXCEPT ![Len(rest)].subtokens = Append(@, current_subtoken)]]
             ELSE [st EXCEPT !.subtoken_stack = rest,
                             !.completed_subtokens = Append(@, current_subtoken)]

start_subtoken(st, kind) ==
    LET st1 == IF /\ st.subtoken_stack # << >>
                  /\ Last(st.subtoken_stack).kind
                        \notin {"DoubleQuotedSequence", "CommandSubstitution"}
               THEN delimit_current_subtoken(st)
               ELSE st
    IN  [st1 EXCEPT !.subtoken_stack = Append(@, WordSubtoken(kind))]

\* mutant: no Text subtoken is opened for the text that is about to be appended
start_text_if_needed_Never(st) == st

start_text_if_needed(st) ==
    IF should_start_text_subtoken(st) THEN start_subtoken(st, "Text") ELSE st

is_specific_operator(st, operator) == st.token_is_operator /\ st.token_so_far = operator

is_newline(st) == st.token_so_far = <<NL>>

replace_with_here_doc(st, s) ==
    LET st1 == IF st.subtoken_stack # << >> /\ Last(st.subtoken_stack).kind = "Text"
               THEN [st EXCEPT !.subtoken_stack[Len(st.subtoken_stack)].raw = s]
               ELSE st
    IN  [st1 EXCEPT !.token_so_far = s]

RECURSIVE delimit_all_subtokens(_)
delimit_all_subtokens(st) ==
    IF st.subtoken_stack = << >> THEN st
    ELSE delimit_all_subtokens(delimit_current_subtoken(st))

TokenParseState_pop(st, end_position, end_offset) ==
    LET st1 == delimit_all_subtokens(st)
    IN  [ type      |-> IF st.token_is_operator THEN "Operator" ELSE "Word",
          raw       |-> st1.token_so_far,
          subtokens |-> IF st.token_is_operator THEN << >> ELSE st1.completed_subtokens,
          location  |-> [start |-> st.start_position, end |-> end_position],
          start_offset |-> st.start_offset,
          end_offset   |-> end_offset ]

(***************************************************************************)
(* The machine: the Tokenizer (reader offset and cross_state), the active  *)
(* calls and what tokenize_str has collected, as one record                *)
(***************************************************************************)
HereNone == [kind |-> "None", remove_tabs |-> FALSE]

Here(kind, remove_tabs) == [kind |-> kind, remove_tabs |-> remove_tabs]

NoResult == [reason |-> "None", token |-> NoToken, depth |-> 0, terminating_char |-> NoChar]

Cur ==
    [ pos |-> pos, cursor |-> cursor, here_state |-> here_state,
      current_here_tags |-> current_here_tags, stack |-> stack, tokens |-> tokens,
      status |-> status, error |-> error, last_result |-> last_result ]

Top(m) == Last(m.stack)

SetState(m, st) == [m EXCEPT !.stack[Len(m.stack)].state = st]

Fail(m, kind, at) ==
    [m EXCEPT !.status = "error", !.error = [kind |-> kind, pos |-> at], !.stack = << >>]

Panic(m, kind) ==
    [m EXCEPT !.status = "panic", !.error = [kind |-> kind, pos |-> NoPos], !.stack = << >>]

peek_char(m) == IF m.pos <= Len(input) THEN input[m.pos] ELSE NoChar

next_char(m) ==
    IF m.pos > Len(input) THEN m
    ELSE [m EXCEPT !.pos = @ + 1,
                   !.cursor = IF input[m.pos] = NL
                              THEN [line |-> @.line + 1, column |-> 1]
                              ELSE [@ EXCEPT !.column = @ + 1]]

consume_char(m) == next_char(m)

RECURSIVE consume_chars(_, _)
consume_chars(m, n) == IF n <= 0 THEN m ELSE consume_chars(consume_char(m), n - 1)

(***************************************************************************)
(* TokenParseState::delimit_current_token.  The outcome is "ok" (with the  *)
(* token or NoToken), "err" or "panic"; here_state and current_here_tags   *)
(* are the cross-token state as the call leaves it.                        *)
(***************************************************************************)
HereTagIsQuoted(tok) == Contains(tok, DQ) \/ Contains(tok, SQ) \/ Contains(tok, BSL)

QuotedHereTag(st, reason, m) ==
    [ outcome |-> "panic", error |-> "todo: quoted or escaped here tag",
      reason |-> reason, token |-> NoToken,
      here_state |-> Here("NextLineIsHereDoc", FALSE),
      current_here_tags |-> m.current_here_tags ]

\* mutant: the tag is matched without the newline in front of it
HereTagOf_NoLeadingNewline(st, remove_tabs) ==
    [tag |-> st.token_so_far \o <<NL>>, remove_tabs |-> remove_tabs]

HereTagOf(st, remove_tabs) ==
    [tag |-> <<NL>> \o st.token_so_far \o <<NL>>, remove_tabs |-> remove_tabs]

delimit_current_token(st, reason, m) ==
    LET hs == m.here_state
        done(h, tags) ==
            [ outcome |-> "ok", error |-> "None", reason |-> reason,
              token |-> TokenParseState_pop(st, m.cursor, m.pos),
              here_state |-> h, current_here_tags |-> tags ]
    IN  IF ~started_token(st)
        THEN [ outcome |-> "ok", error |-> "None", reason |-> reason, token |-> NoToken,
               here_state |-> hs, current_here_tags |-> m.current_here_tags ]
        ELSE IF hs.kind = "NextTokenIsHereTag"
        THEN done(Here("CurrentTokenIsHereTag", hs.remove_tabs), m.current_here_tags)
        ELSE IF hs.kind = "CurrentTokenIsHereTag"
        THEN IF is_newline(st)
             THEN [ outcome |-> "err", error |-> "MissingHereTag", reason |-> reason,
                    token |-> NoToken, here_state |-> hs,
                    current_here_tags |-> m.current_here_tags ]
             ELSE IF HereTagIsQuoted(st.token_so_far)
             THEN QuotedHereTag(st, reason, m)
             ELSE done(Here("NextLineIsHereDoc", FALSE),
                       Append(m.current_here_tags, HereTagOf(st, hs.remove_tabs)))
        ELSE IF hs.kind = "NextLineIsHereDoc" /\ is_newline(st)
        THEN done(Here("InHereDocs", FALSE), m.current_here_tags)
        ELSE done(hs, m.current_here_tags)

(***************************************************************************)
(* The end-of-here-document check that closes every iteration of the       *)
(* dispatch loop which does not return.                                    *)
(***************************************************************************)
\* mutant: matching the last tag leaves the here-state as it is
CheckEndOfHereDoc_KeepsState(m) ==
    LET st == Top(m).state IN
    IF /\ m.here_state.kind = "InHereDocs"
       /\ m.current_here_tags # << >>
       /\ HasSuffix(st.token_so_far, m.current_here_tags[1].tag)
    THEN LET tag == m.current_here_tags[1].tag
             without_suffix == SubSeq(st.token_so_far, 1, Len(st.token_so_far) - Len(tag))
             m1 == [m EXCEPT !.current_here_tags = Tail(m.current_here_tags)]
         IN  SetState(m1, append_char(replace_with_here_doc(st, without_suffix), NL))
    ELSE m

CheckEndOfHereDoc(m) ==
    LET st == Top(m).state IN
    IF /\ m.here_state.kind = "InHereDocs"
       /\ m.current_here_tags # << >>
       /\ HasSuffix(st.token_so_far, m.current_here_tags[1].tag)
    THEN LET tag == m.current_here_tags[1].tag
             without_suffix == SubSeq(st.token_so_far, 1, Len(st.token_so_far) - Len(tag))
             rest == Tail(m.current_here_tags)
             m1 == [m EXCEPT !.current_here_tags = rest,
                             !.here_state = IF rest = << >> THEN HereNone ELSE @]
         IN  SetState(m1, append_char(replace_with_here_doc(st, without_suffix), NL))
    ELSE m

EndOfIteration(m) == CheckEndOfHereDoc(m)

(***************************************************************************)
(* What the caller does with the result of a call                          *)
(***************************************************************************)
tokenize_str_loop(m, r) ==
    IF r.token # NoToken
    THEN [m EXCEPT !.tokens = Append(@, r.token)]
    ELSE [m EXCEPT !.status = "ok"]

\* mutant: the nested tokens are joined without the space between them
CommandSubstitutionLoop_NoSpace(m, r) ==
    LET f == Top(m)
        st1 == IF r.token = NoToken THEN f.state
               ELSE append_str(f.state, r.token.raw)
        toks == IF r.token = NoToken THEN f.tokens ELSE Append(f.tokens, r.token)
    IN  IF r.reason # "SpecifiedTerminatingChar"
        THEN [m EXCEPT !.stack[Len(m.stack)].state = st1,
                       !.stack[Len(m.stack)].tokens = toks]
        ELSE IF peek_char(m) = NoChar THEN Panic(m, "unwrap on None")
        ELSE LET st2 == append_char(st1, peek_char(m))
                 n == Len(st2.subtoken_stack)
             IN  IF n = 0 \/ Last(st2.subtoken_stack).kind # "CommandSubstitution"
                 THEN Panic(m, "expected command substitution subtoken")
                 ELSE LET st3 == [st2 EXCEPT !.subtoken_stack[n].tokens = @ \o toks]
                          m1 == [next_char(m) EXCEPT
                                    !.stack[Len(m.stack)].state = delimit_current_subtoken(st3),
                                    !.stack[Len(m.stack)].tokens = << >>,
                                    !.stack[Len(m.stack)].pc = "loop"]
                      IN  EndOfIteration(m1)

CommandSubstitutionLoop(m, r) ==
    LET f == Top(m)
        st1 == IF r.token = NoToken THEN f.state
               ELSE append_str(IF f.tokens # << >> THEN append_char(f.state, SP)
                               ELSE f.state, r.token.raw)
        toks == IF r.token = NoToken THEN f.tokens ELSE Append(f.tokens, r.token)
    IN  IF r.reason # "SpecifiedTerminatingChar"
        THEN [m EXCEPT !.stack[Len(m.stack)].state = st1,
                       !.stack[Len(m.stack)].tokens = toks]
        ELSE IF peek_char(m) = NoChar THEN Panic(m, "unwrap on None")
        ELSE LET st2 == append_char(st1, peek_char(m))
                 n == Len(st2.subtoken_stack)
             IN  IF n = 0 \/ Last(st2.subtoken_stack).kind # "CommandSubstitution"
                 THEN Panic(m, "expected command substitution subtoken")
                 ELSE LET st3 == [st2 EXCEPT !.subtoken_stack[n].tokens = @ \o toks]
                          m1 == [next_char(m) EXCEPT
                                    !.stack[Len(m.stack)].state = delimit_current_subtoken(st3),
                                    !.stack[Len(m.stack)].tokens = << >>,
                                    !.stack[Len(m.stack)].pc = "loop"]
                      IN  EndOfIteration(m1)

BracedExpansionLoop(m, r) ==
    LET f == Top(m)
        st1 == IF r.token = NoToken THEN f.state ELSE append_str(f.state, r.token.raw)
        st2 == IF r.reason = "NonNewLineBlank" THEN append_char(st1, SP) ELSE st1
    IN  IF r.reason # "SpecifiedTerminatingChar"
        THEN SetState(m, st2)
        ELSE IF peek_char(m) = NoChar THEN Panic(m, "unwrap on None")
        ELSE LET m1 == [next_char(m) EXCEPT
                           !.stack[Len(m.stack)].state = append_char(st2, peek_char(m)),
                           !.stack[Len(m.stack)].pc = "loop"]
             IN  EndOfIteration(m1)

\* mutant: a sub-lex works on its own copy of the here-state and the tag queue
Return_SubLexOwnState(m, r) ==
    LET m1 == IF Len(m.stack) > 1 THEN m
              ELSE [m EXCEPT !.here_state = r.here_state,
                             !.current_here_tags = r.current_here_tags]
    IN  IF r.outcome = "err" THEN Fail(m1, r.error, NoPos)
        ELSE IF r.outcome = "panic" THEN Panic(m1, r.error)
        ELSE LET m2 == [m1 EXCEPT
                          !.stack = Front(m.stack),
                          !.last_result =
                              [ reason |-> r.reason, token |-> r.token,
                                depth |-> Len(m.stack),
                                terminating_char |-> Top(m).terminating_char ]]
             IN  IF m2.stack = << >> THEN tokenize_str_loop(m2, r)
                 ELSE IF Top(m2).pc = "cmdsub" THEN CommandSubstitutionLoop(m2, r)
                 ELSE BracedExpansionLoop(m2, r)

Return(m, r) ==
    LET m1 == [m EXCEPT !.here_state = r.here_state,
                        !.current_here_tags = r.current_here_tags]
    IN  IF r.outcome = "err" THEN Fail(m1, r.error, NoPos)
        ELSE IF r.outcome = "panic" THEN Panic(m1, r.error)
        ELSE LET m2 == [m1 EXCEPT
                          !.stack = Front(m.stack),
                          !.last_result =
                              [ reason |-> r.reason, token |-> r.token,
                                depth |-> Len(m.stack),
                                terminating_char |-> Top(m).terminating_char ]]
             IN  IF m2.stack = << >> THEN tokenize_str_loop(m2, r)
                 ELSE IF Top(m2).pc = "cmdsub" THEN CommandSubstitutionLoop(m2, r)
                 ELSE BracedExpansionLoop(m2, r)

(***************************************************************************)
(* The dispatch loop of next_token_until: which arm of the if/else-if      *)
(* chain the peeked character selects                                      *)
(***************************************************************************)
\* mutant: a backslash escapes inside single quotes too
does_char_newly_affect_quoting_SingleEscapes(st, c) ==
    IF st.in_escape THEN FALSE
    ELSE IF st.quote_mode.kind \in {"Double", "Single"} THEN c = BSL
    ELSE is_quoting_char(c)

does_char_newly_affect_quoting(st, c) ==
    IF st.in_escape THEN FALSE
    ELSE IF st.quote_mode.kind = "Double" THEN c = BSL
    ELSE IF st.quote_mode.kind = "Single" THEN FALSE
    ELSE is_quoting_char(c)

\* mutant: in a recursive call too a # met before any token text is a comment
DispatchArm_CommentInSubLex(m) ==
    LET f == Top(m)
        st == f.state
        next == peek_char(m)
        c == IF next = NoChar THEN NUL ELSE next
    IN  IF next = NoChar THEN "EndOfInput"
        ELSE IF unquoted(st) /\ f.terminating_char = c THEN "TerminatingChar"
        ELSE IF m.here_state.kind = "InHereDocs" THEN "HereDocBody"
        ELSE IF st.token_is_operator THEN "Operator"
        ELSE IF does_char_newly_affect_quoting(st, c)
        THEN (IF c = BSL THEN "Backslash"
              ELSE IF c = SQ THEN "OpenSingleQuote" ELSE "OpenDoubleQuote")
        ELSE IF ~st.in_escape /\ st.quote_mode.kind = "Single" /\ c = SQ
        THEN "CloseSingleQuote"
        ELSE IF ~st.in_escape /\ st.quote_mode.kind = "Double" /\ c = DQ
        THEN "CloseDoubleQuote"
        ELSE IF st.in_escape THEN "EndEscape"
        ELSE IF /\ unquoted(st) \/ (st.quote_mode.kind = "Double" /\ ~st.in_escape)
                /\ c \in {"$", BQ}
        THEN (IF c = "$" THEN "Dollar" ELSE "Backquote")
        ELSE IF unquoted(st) /\ can_start_operator(c) THEN "OperatorStart"
        ELSE IF unquoted(st) /\ is_blank(c) THEN "Blank"
        ELSE IF /\ ~st.token_is_operator
                /\ started_token(st) \/ (f.terminating_char # NoChar /\ c # "#")
        THEN "Append"
        ELSE IF c = "#" THEN "Comment"
        ELSE "WordStart"

DispatchArm(m) ==
    LET f == Top(m)
        st == f.state
        next == peek_char(m)
        c == IF next = NoChar THEN NUL ELSE next
    IN  IF next = NoChar THEN "EndOfInput"
        ELSE IF unquoted(st) /\ f.terminating_char = c THEN "TerminatingChar"
        ELSE IF m.here_state.kind = "InHereDocs" THEN "HereDocBody"
        ELSE IF st.token_is_operator THEN "Operator"
        ELSE IF does_char_newly_affect_quoting(st, c)
        THEN (IF c = BSL THEN "Backslash"
              ELSE IF c = SQ THEN "OpenSingleQuote" ELSE "OpenDoubleQuote")
        ELSE IF ~st.in_escape /\ st.quote_mode.kind = "Single" /\ c = SQ
        THEN "CloseSingleQuote"
        ELSE IF ~st.in_escape /\ st.quote_mode.kind = "Double" /\ c = DQ
        THEN "CloseDoubleQuote"
        ELSE IF st.in_escape THEN "EndEscape"
        ELSE IF /\ unquoted(st) \/ (st.quote_mode.kind = "Double" /\ ~st.in_escape)
                /\ c \in {"$", BQ}
        THEN (IF c = "$" THEN "Dollar" ELSE "Backquote")
        ELSE IF unquoted(st) /\ can_start_operator(c) THEN "OperatorStart"
        ELSE IF unquoted(st) /\ is_blank(c) THEN "Blank"
        ELSE IF ~st.token_is_operator /\ (started_token(st) \/ f.terminating_char # NoChar)
        THEN "Append"
        ELSE IF c = "#" THEN "Comment"
        ELSE "WordStart"

(***************************************************************************)
(* The arms.  Each maps the machine before an iteration that selected the  *)
(* arm to the machine after it.                                            *)
(***************************************************************************)
\* mutant: the pending here-document is not looked at
AtEndOfInput_NoHereCheck(m) ==
    LET st == Top(m).state IN
    IF st.in_escape THEN Fail(m, "UnterminatedEscape", NoPos)
    ELSE IF st.quote_mode.kind = "Single"
    THEN Fail(m, "UnterminatedSingleQuote", st.quote_mode.pos)
    ELSE IF st.quote_mode.kind = "Double"
    THEN Fail(m, "UnterminatedDoubleQuote", st.quote_mode.pos)
    ELSE Return(m, delimit_current_token(st, "EndOfInput", m))

\* mutant: an open quote is reported before an open escape
AtEndOfInput_QuoteFirst(m) ==
    LET st == Top(m).state IN
    IF st.quote_mode.kind = "Single"
    THEN Fail(m, "UnterminatedSingleQuote", st.quote_mode.pos)
    ELSE IF st.quote_mode.kind = "Double"
    THEN Fail(m, "UnterminatedDoubleQuote", st.quote_mode.pos)
    ELSE IF st.in_escape THEN Fail(m, "UnterminatedEscape", NoPos)
    ELSE IF m.here_state # HereNone
    THEN Fail(m, "UnterminatedHereDocument", NoPos)
    ELSE Return(m, delimit_current_token(st, "EndOfInput", m))

AtEndOfInput(m) ==
    LET st == Top(m).state IN
    IF st.in_escape THEN Fail(m, "UnterminatedEscape", NoPos)
    ELSE IF st.quote_mode.kind = "Single"
    THEN Fail(m, "UnterminatedSingleQuote", st.quote_mode.pos)
    ELSE IF st.quote_mode.kind = "Double"
    THEN Fail(m, "UnterminatedDoubleQuote", st.quote_mode.pos)
    ELSE IF m.here_state # HereNone
    THEN Fail(m, "UnterminatedHereDocument", NoPos)
    ELSE Return(m, delimit_current_token(st, "EndOfInput", m))

\* mutant: the call consumes the terminating character itself
AtTerminatingChar_Consumes(m) ==
    LET m1 == consume_char(m)
    IN  Return(m1, delimit_current_token(Top(m).state, "SpecifiedTerminatingChar", m1))

AtTerminatingChar(m) ==
    Return(m, delimit_current_token(Top(m).state, "SpecifiedTerminatingChar", m))

\* mutant: tabs are removed on the first body line only
RemovesTab_FirstLineOnly(m, st, c) ==
    /\ m.current_here_tags # << >>
    /\ m.current_here_tags[1].remove_tabs
    /\ ~started_token(st)
    /\ c = TAB

RemovesTab(m, st, c) ==
    /\ m.current_here_tags # << >>
    /\ m.current_here_tags[1].remove_tabs
    /\ ~started_token(st) \/ Last(st.token_so_far) = NL
    /\ c = TAB

InHereDocBody(m) ==
    LET st == Top(m).state
        c == peek_char(m)
        m1 == consume_char(m)
    IN  IF RemovesTab(m1, st, c) THEN EndOfIteration(m1)
        ELSE EndOfIteration(SetState(m1, append_char(start_text_if_needed(st), c)))

\* mutant: the operator itself is taken for the token before the here-tag
ArmHereState_OperatorIsTag(m, st) ==
    IF is_specific_operator(st, <<"<", "<">>)
    THEN [m EXCEPT !.here_state = Here("CurrentTokenIsHereTag", FALSE)]
    ELSE IF is_specific_operator(st, <<"<", "<", "-">>)
    THEN [m EXCEPT !.here_state = Here("CurrentTokenIsHereTag", TRUE)]
    ELSE m

ArmHereState(m, st) ==
    IF is_specific_operator(st, <<"<", "<">>)
    THEN [m EXCEPT !.here_state = Here("NextTokenIsHereTag", FALSE)]
    ELSE IF is_specific_operator(st, <<"<", "<", "-">>)
    THEN [m EXCEPT !.here_state = Here("NextTokenIsHereTag", TRUE)]
    ELSE m

\* mutant: an operator is never extended to a third character
ExtendsOperator_TwoChars(st, c) ==
    unquoted(st) /\ Len(st.token_so_far) < 2 /\ is_operator(Append(st.token_so_far, c))

ExtendsOperator(st, c) == unquoted(st) /\ is_operator(Append(st.token_so_far, c))

InOperator(m) ==
    LET st == Top(m).state
        c == peek_char(m)
    IN  IF ExtendsOperator(st, c)
        THEN EndOfIteration(SetState(consume_char(m), append_char(st, c)))
        ELSE IF ~started_token(st) THEN Panic(m, "assertion failed: started_token")
        ELSE LET m1 == ArmHereState(m, st)
             IN  Return(m1, delimit_current_token(st, "Other", m1))

\* mutant: the newline after the backslash is left in the input
AtBackslash_KeepsNewline(m) ==
    LET st == Top(m).state
        m1 == consume_char(m)
    IN  IF peek_char(m1) = NL
        THEN EndOfIteration(m1)
        ELSE EndOfIteration(SetState(m1,
                append_char([start_subtoken(st, "EscapeSequence") EXCEPT !.in_escape = TRUE],
                            BSL)))

AtBackslash(m) ==
    LET st == Top(m).state
        m1 == consume_char(m)
    IN  IF peek_char(m1) = NL
        THEN EndOfIteration(consume_char(m1))
        ELSE EndOfIteration(SetState(m1,
                append_char([start_subtoken(st, "EscapeSequence") EXCEPT !.in_escape = TRUE],
                            BSL)))

OpenQuote(m, subtoken_kind, quote_kind) ==
    LET st == Top(m).state
        st1 == [start_subtoken(st, subtoken_kind) EXCEPT
                   !.quote_mode = [kind |-> quote_kind, pos |-> m.cursor]]
    IN  EndOfIteration(SetState(consume_char(m), append_char(st1, peek_char(m))))

AtSingleQuote(m) == OpenQuote(m, "SingleQuotedText", "Single")

AtDoubleQuote(m) == OpenQuote(m, "DoubleQuotedSequence", "Double")

AtClosingSingleQuote(m) ==
    LET st == Top(m).state
        st1 == append_char([st EXCEPT !.quote_mode = QuoteNone], peek_char(m))
    IN  EndOfIteration(SetState(consume_char(m), delimit_current_subtoken(st1)))

AtClosingDoubleQuote(m) ==
    LET st == Top(m).state
        st0 == IF st.subtoken_stack # << >>
                  /\ Last(st.subtoken_stack).kind = "DoubleQuotedSequence"
               THEN st ELSE delimit_current_subtoken(st)
        st1 == append_char([st0 EXCEPT !.quote_mode = QuoteNone], peek_char(m))
    IN  EndOfIteration(SetState(consume_char(m), delimit_current_subtoken(st1)))

AtEscapedChar(m) ==
    LET st == Top(m).state
        st1 == append_char([st EXCEPT !.in_escape = FALSE], peek_char(m))
    IN  EndOfIteration(SetState(consume_char(m), delimit_current_subtoken(st1)))

\* mutant: the scan stops at the first backquote, escaped or not
RECURSIVE BackquoteEnd_NoEscape(_, _)
BackquoteEnd_NoEscape(i, escaping_enabled) ==
    IF i > Len(input) THEN 0
    ELSE IF input[i] = BQ THEN i
    ELSE BackquoteEnd_NoEscape(i + 1, FALSE)

RECURSIVE BackquoteEnd(_, _)
BackquoteEnd(i, escaping_enabled) ==
    IF i > Len(input) THEN 0
    ELSE IF ~escaping_enabled /\ input[i] = BSL THEN BackquoteEnd(i + 1, TRUE)
    ELSE IF ~escaping_enabled /\ input[i] = BQ THEN i
    ELSE BackquoteEnd(i + 1, FALSE)

AtBackquote(m) ==
    LET st == Top(m).state
        backquote_loc == m.cursor
        m1 == consume_char(m)
        st1 == append_char(start_subtoken(st, "CommandSubstitution"), BQ)
        e == BackquoteEnd(m1.pos, FALSE)
    IN  IF e = 0
        THEN Fail(consume_chars(m1, Len(input) + 1 - m1.pos), "UnterminatedBackquote",
                  backquote_loc)
        ELSE LET st2 == append_str(st1, SubSeq(input, m1.pos, e))
                 m2 == consume_chars(m1, e + 1 - m1.pos)
             IN  EndOfIteration(SetState(m2, delimit_current_subtoken(st2)))

AtDollar(m) ==
    LET st == Top(m).state
        m1 == consume_char(m)
        char_after_dollar_sign == peek_char(m1)
        n == Len(m.stack)
    IN  IF char_after_dollar_sign = NoChar THEN EndOfIteration(m1)
        ELSE IF char_after_dollar_sign = "("
        THEN LET st1 == append_char(append_char(start_subtoken(st, "CommandSubstitution"),
                                                "$"), "(")
             IN  [consume_char(m1) EXCEPT !.stack[n].state = st1,
                                          !.stack[n].tokens = << >>,
                                          !.stack[n].pc = "cmdsub"]
        ELSE IF char_after_dollar_sign = "{"
        THEN LET st1 == append_char(append_char(start_text_if_needed(st), "$"), "{")
             IN  [consume_char(m1) EXCEPT !.stack[n].state = st1,
                                          !.stack[n].pc = "brace"]
        ELSE EndOfIteration(SetState(m1, append_char(start_text_if_needed(st), "$")))

AtOperatorStart(m) ==
    LET st == Top(m).state IN
    IF started_token(st) THEN Return(m, delimit_current_token(st, "Other", m))
    ELSE LET st1 == [start_text_if_needed(st) EXCEPT !.token_is_operator = TRUE]
         IN  EndOfIteration(SetState(consume_char(m), append_char(st1, peek_char(m))))

\* mutant: the blank that ends a token is kept at the end of it
AtBlank_KeepsBlank(m) ==
    LET st == Top(m).state
        m1 == consume_char(m)
    IN  IF started_token(st)
        THEN Return(m1, delimit_current_token(append_char(st, peek_char(m)),
                                              "NonNewLineBlank", m1))
        ELSE EndOfIteration(m1)

\* mutant: a blank ends the call even when no token was started
AtBlank_AlwaysReturns(m) ==
    LET m1 == consume_char(m)
    IN  Return(m1, delimit_current_token(Top(m).state, "NonNewLineBlank", m1))

AtBlank(m) ==
    LET st == Top(m).state
        m1 == consume_char(m)
    IN  IF started_token(st) THEN Return(m1, delimit_current_token(st, "NonNewLineBlank", m1))
        ELSE EndOfIteration(m1)

AppendLiteral(m) ==
    LET st == Top(m).state IN
    EndOfIteration(SetState(consume_char(m),
                            append_char(start_text_if_needed(st), peek_char(m))))

RECURSIVE CommentEnd(_)
CommentEnd(i) ==
    IF i > Len(input) \/ input[i] = NL THEN i ELSE CommentEnd(i + 1)

\* mutant: the comment takes the newline that ends it
AtComment_ThroughNewline(m) ==
    LET m1 == consume_char(m)
    IN  consume_chars(m1, CommentEnd(m1.pos) + 1 - m1.pos)

AtComment(m) ==
    LET m1 == consume_char(m)
    IN  consume_chars(m1, CommentEnd(m1.pos) - m1.pos)

AtWordStart(m) ==
    LET st == Top(m).state IN
    IF started_token(st) THEN Return(m, delimit_current_token(st, "Other", m))
    ELSE AppendLiteral(m)

(***************************************************************************)
(* Calls of next_token_until                                               *)
(***************************************************************************)
Frame(m, terminating_char) ==
    [ state |-> TokenParseState_new(m.cursor, m.pos),
      terminating_char |-> terminating_char,
      pc |-> "loop",          \* "loop", or the inner loop the call is suspended in
      tokens |-> << >> ]      \* the tokens vector of the command-substitution arm

next_token(m) == [m EXCEPT !.stack = Append(@, Frame(m, NoChar))]

next_token_until(m) ==
    [m EXCEPT !.stack = Append(@, Frame(m, IF Top(m).pc = "cmdsub" THEN ")" ELSE "}"))]

(***************************************************************************)
(* The inputs of the tests of tokenizer.rs                                 *)
(***************************************************************************)
tokenize_empty == << >>

tokenize_line_continuation == << "a", BSL, NL, "b", "c" >>

tokenize_operators == << "a", ">", ">", "b" >>

tokenize_comment == << "a", SP, "#", "c", "o", "m", "m", "e", "n", "t", NL >>

tokenize_comment_at_eof == << "a", SP, "#", "c", "o", "m", "m", "e", "n", "t" >>

tokenize_here_doc ==
    << "c", "a", "t", SP, "<", "<", "H", "E", "R", "E", NL, "S", "O", "M", "E", "T",
       "H", "I", "N", "G", NL, "H", "E", "R", "E", NL >>

tokenize_here_doc_with_tab_removal ==
    << "c", "a", "t", SP, "<", "<", "-", "H", "E", "R", "E", NL, TAB, "S", "O", "M",
       "E", "T", "H", "I", "N", "G", NL, TAB, "H", "E", "R", "E", NL >>

tokenize_unterminated_here_doc ==
    << "c", "a", "t", SP, "<", "<", "H", "E", "R", "E", NL, "S", "O", "M", "E", "T",
       "H", "I", "N", "G", NL >>

tokenize_missing_here_tag == << "c", "a", "t", SP, "<", "<", NL >>

tokenize_simple_backquote ==
    << "e", "c", "h", "o", SP, BQ, "e", "c", "h", "o", SP, "h", "i", BQ >>

tokenize_backquote_with_escape ==
    << "e", "c", "h", "o", SP, BQ, "e", "c", "h", "o", BSL, BQ, "h", "i", BQ >>

tokenize_command_substitution ==
    << "a", "$", "(", "e", "c", "h", "o", SP, "h", "i", ")", "b", SP, "c" >>

tokenize_unbraced_parameter_expansion == << "$", "x" >>

tokenize_unbraced_parameter_expansion_2 == << "a", "$", "x" >>

tokenize_braced_parameter_expansion == << "$", "{", "x", "}" >>

tokenize_braced_parameter_expansion_2 == << "a", "$", "{", "x", "}", "b" >>

tokenize_braced_parameter_expansion_with_escaping ==
    << "a", "$", "{", "x", BSL, "}", "}", "b" >>

tokenize_whitespace == << "1", SP, "2", SP, "3" >>

tokenize_escaped_whitespace == << "1", BSL, SP, "2", SP, "3" >>

tokenize_single_quote == << "x", SQ, "a", SP, "b", SQ, "y" >>

tokenize_double_quote == << "x", DQ, "a", SP, "b", DQ, "y" >>

TestInputs ==
    { tokenize_empty, tokenize_line_continuation, tokenize_operators, tokenize_comment,
      tokenize_comment_at_eof, tokenize_here_doc, tokenize_here_doc_with_tab_removal,
      tokenize_unterminated_here_doc, tokenize_missing_here_tag,
      tokenize_simple_backquote, tokenize_backquote_with_escape,
      tokenize_command_substitution, tokenize_unbraced_parameter_expansion,
      tokenize_unbraced_parameter_expansion_2, tokenize_braced_parameter_expansion,
      tokenize_braced_parameter_expansion_2,
      tokenize_braced_parameter_expansion_with_escaping, tokenize_whitespace,
      tokenize_escaped_whitespace, tokenize_single_quote, tokenize_double_quote }

(***************************************************************************)
(* Inputs.  A shape records the form an input was built in.                *)
(***************************************************************************)
MaxLen == 4          \* longest input drawn from an alphabet
MaxBodyLines == 2    \* most body lines of a here-document input

QuotingAlphabet == {"a", SP, NL, BSL, SQ, DQ, "#", "$"}

SubstitutionAlphabet == {"a", SP, DQ, BQ, "$", "(", ")", "{", "}"}

OperatorAlphabet == {"a", NL, "<", ">", "-", "&", "|", ";", "("}

Strings(alphabet, n) == UNION { [1..k -> alphabet] : k \in 0..n }

TextShape(t) == [form |-> "text", text |-> t]

HereWord == <<"a">>
HereTagWord == <<"T">>
HereOperators == { <<"<", "<">>, <<"<", "<", "-">> }
BodyLines ==
    { <<"x">>, << >>, <<TAB, "x">>, <<TAB, TAB, "x">>, <<TAB, "T">>, <<"x", "T">>,
      <<"T", TAB>>, <<SQ>>, <<BSL>>, <<"$", "(">>, <<"#", SP, DQ, ";">>,
      <<"<", "<", "T">>, <<"T">> }
QuotedHereTags == { <<SQ, "T", SQ>>, <<DQ, "T", DQ>>, <<BSL, "T">>, <<"T", BSL, BSL>> }
OperatorLineEnds ==
    { << >>, <<SP>>, <<SP, "x">>, <<SP, SQ, "x">>, <<SP, DQ, "x">>, <<SP, BSL>>,
      <<SP, BQ, "x">>, <<SP, "$">>, <<SP, "$", "(">>, <<SP, "$", "{", "x">>,
      <<SP, "#", "x">>, <<";">> }

\* W <<TAG newline, the body lines, and the closing TAG line when `closed`
HereDocShapes ==
    { [form |-> "heredoc", op |-> o, tag |-> HereTagWord, lines |-> ls, closed |-> cl,
       rest |-> << >>] :
        o \in HereOperators, ls \in Strings(BodyLines, MaxBodyLines) \ {<< >>},
        cl \in BOOLEAN }

\* W <<TAG followed by the rest of the operator line
OperatorLineShapes ==
    { [form |-> "operator_line", op |-> o, tag |-> t, lines |-> << >>, closed |-> FALSE,
       rest |-> r] :
        o \in HereOperators, t \in {HereTagWord} \cup QuotedHereTags \cup {<< >>},
        r \in OperatorLineEnds \cup {<<NL>>, <<NL, "x", NL>>} }

RECURSIVE JoinLines(_)
JoinLines(ls) == IF ls = << >> THEN << >> ELSE Head(ls) \o <<NL>> \o JoinLines(Tail(ls))

Render(sh) ==
    IF sh.form = "text" THEN sh.text
    ELSE IF sh.form = "heredoc"
    THEN HereWord \o <<SP>> \o sh.op \o sh.tag \o <<NL>> \o JoinLines(sh.lines)
            \o (IF sh.closed THEN sh.tag \o <<NL>> ELSE << >>)
    ELSE IF sh.form = "operator_line"
    THEN HereWord \o <<SP>> \o sh.op \o sh.tag \o sh.rest
    ELSE IF sh.form = "shared"
    THEN sh.open \o HereWord \o <<SP>> \o sh.op \o sh.tag \o sh.close \o <<NL>>
            \o JoinLines(sh.lines) \o (IF sh.closed THEN sh.tag \o <<NL>> ELSE << >>)
    ELSE IF sh.form = "heredocs"
    THEN HereWord \o <<SP>> \o sh.op \o sh.tag \o <<SP>> \o sh.op2 \o sh.tag2 \o <<NL>>
            \o JoinLines(sh.lines)
    ELSE sh.before \o sh.open \o sh.body \o sh.close \o sh.after

TextShapes ==
    { TextShape(t) : t \in Strings(QuotingAlphabet, MaxLen)
                         \cup Strings(SubstitutionAlphabet, MaxLen) \cup TestInputs }

OperatorShapes == { TextShape(t) : t \in Strings(OperatorAlphabet, MaxLen) \cup TestInputs }

HereShapes == HereDocShapes \cup OperatorLineShapes \cup { TextShape(t) : t \in TestInputs }

(***************************************************************************)
(* The state machine                                                       *)
(***************************************************************************)
InitOn(shapes) ==
    /\ shape \in shapes
    /\ input = Render(shape)
    /\ pos = 1
    /\ cursor = [line |-> 1, column |-> 1]
    /\ here_state = HereNone
    /\ current_here_tags = << >>
    /\ stack = << >>
    /\ tokens = << >>
    /\ status = "running"
    /\ error = NoError
    /\ last_result = NoResult
    /\ items = << >>

\* What Iterator::next makes of the result of next_token: Some(Ok(result)) when
\* there is a token, None when there is none, Some(Err(e)) on an error
Item(m) ==
    IF m.status = "error" THEN "Err"
    ELSE IF m.status = "ok" THEN "None"
    ELSE "Token"

Settle(m) ==
    IF m.status = "running" /\ m.stack # << >> /\ Top(m).state.panicked
    THEN Panic(m, "appending without current subtoken")
    ELSE m

Commit(m0) ==
    LET m == Settle(m0) IN
    /\ pos' = m.pos
    /\ cursor' = m.cursor
    /\ here_state' = m.here_state
    /\ current_here_tags' = m.current_here_tags
    /\ stack' = m.stack
    /\ tokens' = m.tokens
    /\ status' = m.status
    /\ error' = m.error
    /\ last_result' = m.last_result
    /\ items' = IF stack # << >> /\ m.stack = << >> /\ m.status # "panic"
                THEN Append(items, Item(m))
                ELSE items
    /\ UNCHANGED << input, shape >>

Dispatching == status = "running" /\ stack # << >> /\ Top(Cur).pc = "loop"

Arm(name) == Dispatching /\ DispatchArm(Cur) = name

\* tokenize_str calls next_token
NextToken == status = "running" /\ stack = << >> /\ Commit(next_token(Cur))

\* the loop of the $( or ${ arm calls next_token_until
NextTokenUntil ==
    /\ status = "running" /\ stack # << >> /\ Top(Cur).pc # "loop"
    /\ Commit(next_token_until(Cur))

EndOfInput == Arm("EndOfInput") /\ Commit(AtEndOfInput(Cur))
TerminatingChar == Arm("TerminatingChar") /\ Commit(AtTerminatingChar(Cur))
HereDocBody == Arm("HereDocBody") /\ Commit(InHereDocBody(Cur))
Operator == Arm("Operator") /\ Commit(InOperator(Cur))
Backslash == Arm("Backslash") /\ Commit(AtBackslash(Cur))
OpenSingleQuote == Arm("OpenSingleQuote") /\ Commit(AtSingleQuote(Cur))
OpenDoubleQuote == Arm("OpenDoubleQuote") /\ Commit(AtDoubleQuote(Cur))
CloseSingleQuote == Arm("CloseSingleQuote") /\ Commit(AtClosingSingleQuote(Cur))
CloseDoubleQuote == Arm("CloseDoubleQuote") /\ Commit(AtClosingDoubleQuote(Cur))
EndEscape == Arm("EndEscape") /\ Commit(AtEscapedChar(Cur))
Dollar == Arm("Dollar") /\ Commit(AtDollar(Cur))
Backquote == Arm("Backquote") /\ Commit(AtBackquote(Cur))
OperatorStart == Arm("OperatorStart") /\ Commit(AtOperatorStart(Cur))
Blank == Arm("Blank") /\ Commit(AtBlank(Cur))
AppendChar == Arm("Append") /\ Commit(AppendLiteral(Cur))
Comment == Arm("Comment") /\ Commit(AtComment(Cur))
WordStart == Arm("WordStart") /\ Commit(AtWordStart(Cur))

Next ==
    \/ NextToken
    \/ NextTokenUntil
    \/ EndOfInput
    \/ TerminatingChar
    \/ HereDocBody
    \/ Operator
    \/ Backslash
    \/ OpenSingleQuote
    \/ OpenDoubleQuote
    \/ CloseSingleQuote
    \/ CloseDoubleQuote
    \/ EndEscape
    \/ Dollar
    \/ Backquote
    \/ OperatorStart
    \/ Blank
    \/ AppendChar
    \/ Comment
    \/ WordStart

Init == InitOn(TextShapes)
InitOperators == InitOn(OperatorShapes)
InitHere == InitOn(HereShapes)

Spec == Init /\ [][Next]_vars
SpecOperators == InitOperators /\ [][Next]_vars
SpecHere == InitHere /\ [][Next]_vars

\* The program is one thread that keeps executing: a step that can be taken is
\* taken.  Checked on short inputs with the substitution openers.
MaxLoopLen == 3
LoopAlphabet == {"a", SP, DQ, "$", "(", ")", "{", "}"}
LoopShapes == { TextShape(t) : t \in Strings(LoopAlphabet, MaxLoopLen) \cup TestInputs }
InitLoops == InitOn(LoopShapes)
FairSpec == InitLoops /\ [][Next]_vars /\ WF_vars(Next)

\* The iteration view: the caller of Iterator::next may call it again after it
\* yielded None or an error; the Tokenizer keeps its reader and cross_state
MaxRetries == 2
Retries == Cardinality({ i \in 1..Len(items) : items[i] # "Token" })
IteratorNext ==
    /\ status \in {"ok", "error"} /\ stack = << >>
    /\ Retries <= MaxRetries
    /\ Commit([next_token(Cur) EXCEPT !.status = "running", !.error = NoError])
NextIterator == Next \/ IteratorNext
InitIterator == InitOn(HereShapes)
SpecIterator == InitIterator /\ [][NextIterator]_vars

\* A closed $( ) or ${ } around a body, unquoted or inside double quotes
MaxBodyLen == 3
SubstitutionBodyAlphabet == {"a", SP, ";", "$", "(", ")", DQ, BSL}
ExpansionBodyAlphabet == {"x", SP, "}", "{", "$", DQ, SQ, BSL}
Surroundings ==
    { [before |-> << >>, after |-> << >>], [before |-> <<"a">>, after |-> <<"b", SP, "c">>],
      [before |-> <<DQ>>, after |-> <<DQ>>], [before |-> <<DQ, "a", SP>>, after |-> <<"b", DQ>>] }
EnclosedShapes(open, body_alphabet, close) ==
    { [form |-> "enclosed", before |-> w.before, open |-> open, body |-> b,
       close |-> close, after |-> w.after] :
        w \in Surroundings, b \in Strings(body_alphabet, MaxBodyLen) }
SubstitutionShapes ==
    EnclosedShapes(<<"$", "(">>, SubstitutionBodyAlphabet, <<")">>)
        \cup { TextShape(t) : t \in TestInputs }
ExpansionShapes ==
    EnclosedShapes(<<"$", "{">>, ExpansionBodyAlphabet, <<"}">>)
        \cup { TextShape(t) : t \in TestInputs }
InitExpansions == InitOn(ExpansionShapes)
SpecExpansions == InitExpansions /\ [][Next]_vars
InitSubstitutions == InitOn(SubstitutionShapes)
SpecSubstitutions == InitSubstitutions /\ [][Next]_vars

\* Inputs with blanks, the quoting characters, a backquote and an operator
BlankAlphabet == {"1", SP, TAB, BSL, SQ, DQ, BQ, ";"}
BlankShapes == { TextShape(t) : t \in Strings(BlankAlphabet, MaxLen) \cup TestInputs }
InitBlanks == InitOn(BlankShapes)
SpecBlanks == InitBlanks /\ [][Next]_vars

\* Inputs made of the characters that are special outside single quotes
QuoteAlphabet == {SQ, DQ, BSL, "$", "(", BQ, "#", SP, NL}
QuoteShapes ==
    { TextShape(t) : t \in Strings(QuoteAlphabet, MaxLen) \cup TestInputs }
        \cup OperatorLineShapes
InitQuotes == InitOn(QuoteShapes)
SpecQuotes == InitQuotes /\ [][Next]_vars

\* Inputs with # at top level and inside $( ) and ${ }
CommentAlphabet == {"#", "a", SP, NL, ")", "}"}
CommentShapes ==
    EnclosedShapes(<<"$", "(">>, CommentAlphabet, <<")">>)
        \cup EnclosedShapes(<<"$", "{">>, CommentAlphabet, <<"}">>)
        \cup { TextShape(t) : t \in Strings(CommentAlphabet, MaxLen) \cup TestInputs }
InitComments == InitOn(CommentShapes)
SpecComments == InitComments /\ [][Next]_vars

\* W <<A <<B newline and the lines after it: two here-documents on one
\* operator line (the first tag may be missing)
MaxQueueLines == 4
QueueLines == { <<"A">>, <<"B">>, <<"x">>, <<TAB, "A">> }
QueueShapes ==
    { [form |-> "heredocs", op |-> o, tag |-> t, op2 |-> o2, tag2 |-> <<"B">>, lines |-> ls] :
        o \in HereOperators, t \in { <<"A">>, << >> }, o2 \in HereOperators,
        ls \in Strings(QueueLines, MaxQueueLines) }
        \cup { TextShape(t) : t \in TestInputs }
InitQueue == InitOn(QueueShapes)
SpecQueue == InitQueue /\ [][Next]_vars

\* $(W <<TAG) or ${W <<TAG} newline, the body lines, and the closing TAG line when
\* `closed`: the here-document operator stands inside a sub-lex
MaxSharedLines == 2
SharedLines == { <<"x">>, << >>, <<TAB, "x">>, <<")">>, <<"T", "x">>, <<"T">> }
SharedShapes ==
    { [form |-> "shared", open |-> e.open, close |-> e.close, op |-> o, tag |-> HereTagWord,
       lines |-> ls, closed |-> cl] :
        e \in { [open |-> <<"$", "(">>, close |-> <<")">>],
                [open |-> <<"$", "{">>, close |-> <<"}">>] },
        o \in HereOperators, ls \in Strings(SharedLines, MaxSharedLines) \ {<< >>},
        cl \in BOOLEAN }
        \cup { TextShape(t) : t \in TestInputs }
InitShared == InitOn(SharedShapes)
SpecShared == InitShared /\ [][Next]_vars

\* Inputs with backquotes, backslashes and the characters a span must not react to
BackquoteAlphabet == {"a", SP, BSL, BQ, DQ, ";"}
BackquoteShapes == { TextShape(t) : t \in Strings(BackquoteAlphabet, MaxLen) \cup TestInputs }
InitBackquotes == InitOn(BackquoteShapes)
SpecBackquotes == InitBackquotes /\ [][Next]_vars

(***************************************************************************)
(* Properties                                                              *)
(***************************************************************************)
Raws(ts) == [i \in 1..Len(ts) |-> ts[i].raw]
Types(ts) == [i \in 1..Len(ts) |-> ts[i].type]

NotBlank(c) == ~is_blank(c)
StripBlanks(s) == SelectSeq(s, NotBlank)

Finished == status # "running"

\* C1: for every finite input every call of next_token returns, so tokenize_str
\* always terminates, with a token list or an error.
C1_Terminates == <>Finished

\* C2: when tokenize_str succeeds on an input with no #, no << and no backslash
\* followed by a newline, the emitted raw texts, concatenated in order and with
\* spaces and tabs deleted, are the input with spaces and tabs deleted.
C2_Applies ==
    /\ ~Contains(input, "#")
    /\ \A i \in 1..Len(input) - 1 :
          /\ ~(input[i] = "<" /\ input[i + 1] = "<")
          /\ ~(input[i] = BSL /\ input[i + 1] = NL)

C2_NoCharacterLost ==
    (status = "ok" /\ C2_Applies)
        => StripBlanks(Concat(Raws(tokens))) = StripBlanks(input)

\* C3: W <<TAG newline, body lines none of which is TAG, then the TAG line, gives
\* exactly five tokens: word W, operator <<, word TAG, operator newline and one
\* word whose raw text is the body lines verbatim, the tag line removed.
C3_Applies ==
    /\ shape.form = "heredoc"
    /\ shape.op = <<"<", "<">>
    /\ shape.closed
    /\ \A i \in 1..Len(shape.lines) : shape.lines[i] # shape.tag

C3_HereDocTokens ==
    (C3_Applies /\ Finished) =>
        /\ status = "ok"
        /\ Types(tokens) = <<"Word", "Operator", "Word", "Operator", "Word">>
        /\ Raws(tokens) =
              <<HereWord, <<"<", "<">>, shape.tag, <<NL>>, JoinLines(shape.lines)>>
        /\ Last(tokens[5].raw) = NL
        /\ Last(shape.lines) # << >> => tokens[5].raw[Len(tokens[5].raw) - 1] # NL

C3_Witness ==
    /\ C3_Applies /\ status = "ok"
    /\ Len(shape.lines) = 2
    /\ shape.lines[1] = <<"#", SP, DQ, ";">>
    /\ shape.lines[2] = <<"x", "T">>
    /\ Len(tokens) = 5

\* C4 (as written): with <<- at most one tab is removed at the start of each body
\* line, further leading tabs staying in the body; with << no tab is removed.
StripOneTab(line) == IF line # << >> /\ Head(line) = TAB THEN Tail(line) ELSE line

RECURSIVE StripTabs(_)
StripTabs(line) == IF line # << >> /\ Head(line) = TAB THEN StripTabs(Tail(line)) ELSE line

C4_Applies ==
    /\ shape.form = "heredoc"
    /\ shape.closed
    /\ \A i \in 1..Len(shape.lines) :
          /\ shape.lines[i] # shape.tag
          /\ shape.op = <<"<", "<", "-">> => StripTabs(shape.lines[i]) # shape.tag

C4_Body(strip(_)) ==
    JoinLines([i \in 1..Len(shape.lines) |->
                  IF shape.op = <<"<", "<", "-">> THEN strip(shape.lines[i])
                  ELSE shape.lines[i]])

C4_SingleTabStripped ==
    (C4_Applies /\ Finished) =>
        status = "ok" /\ Len(tokens) = 5 /\ tokens[5].raw = C4_Body(StripOneTab)

\* C4 (amended): with <<- every leading tab of each body line is removed, tabs
\* after the first other character stay; with << no tab is removed.
C4_AllLeadingTabsStripped ==
    (C4_Applies /\ Finished) =>
        status = "ok" /\ Len(tokens) = 5 /\ tokens[5].raw = C4_Body(StripTabs)

C4_Witness ==
    /\ C4_Applies /\ status = "ok"
    /\ shape.op = <<"<", "<", "-">>
    /\ shape.lines = << <<TAB, TAB, "x">>, <<"T", TAB>> >>
    /\ tokens[5].raw = <<"x", NL, "T", TAB, NL>>

\* C5 (as written): whenever end of input is reached while a here-tag is still
\* queued the call fails with the unterminated-here-document error, and
\* tokenize_str never succeeds while a here-document is not closed.
C5_EndOfInputWithTags ==
    Dispatching /\ peek_char(Cur) = NoChar /\ current_here_tags # << >>

C5_UnterminatedHereDocument ==
    [][ /\ C5_EndOfInputWithTags
            => status' = "error" /\ error'.kind = "UnterminatedHereDocument"
        /\ status' = "ok" => current_here_tags' = << >> ]_vars

\* C5 (amended): whenever end of input is reached while a here-tag is still
\* queued the call fails: with the unterminated-escape error when the token being
\* built has an open escape, else with the unterminated-quote error when it has an
\* open quote, with the unterminated-backquote error when the input ends inside a
\* backquote span, and with the unterminated-here-document error otherwise;
\* tokenize_str never succeeds while a here-document is not closed.
C5_ExpectedError(st) ==
    IF st.in_escape THEN "UnterminatedEscape"
    ELSE IF st.quote_mode.kind = "Single" THEN "UnterminatedSingleQuote"
    ELSE IF st.quote_mode.kind = "Double" THEN "UnterminatedDoubleQuote"
    ELSE "UnterminatedHereDocument"

C5_FailsAtEndOfInput ==
    [][ /\ C5_EndOfInputWithTags
            => status' = "error" /\ error'.kind = C5_ExpectedError(Top(Cur).state)
        /\ ( /\ Arm("Backquote") /\ current_here_tags # << >>
             /\ \A i \in pos + 1..Len(input) : input[i] # BQ )
            => status' = "error" /\ error'.kind = "UnterminatedBackquote"
        /\ status' = "ok" => current_here_tags' = << >> /\ here_state' = HereNone ]_vars

C5_Witness ==
    /\ status = "error" /\ error.kind = "UnterminatedHereDocument"
    /\ shape.form = "heredoc" /\ ~shape.closed
    /\ current_here_tags # << >> /\ pos > Len(input)

\* C6: when the token that follows a << or <<- operator is a bare newline
\* operator, tokenization fails with the missing-here-tag error, whatever follows
\* the newline (nothing included).
C6_NewlineIsHereTag ==
    /\ Dispatching
    /\ here_state.kind = "CurrentTokenIsHereTag"
    /\ Top(Cur).state.token_is_operator
    /\ is_newline(Top(Cur).state)

C6_MissingHereTag ==
    [][ C6_NewlineIsHereTag => status' = "error" /\ error'.kind = "MissingHereTag" ]_vars

\* C7: when the here-tag token after << or <<- contains a quote or a backslash
\* the call returns the error UnsupportedHereTag: it does not abort the program,
\* queues no tag and does not go on lexing.
C7_Applies ==
    /\ shape.form = "operator_line"
    /\ shape.tag \in QuotedHereTags
    /\ shape.rest # << >>

C7_UnsupportedHereTag ==
    (C7_Applies /\ Finished) =>
        /\ status = "error" /\ error.kind = "UnsupportedHereTag"
        /\ current_here_tags = << >>

\* C8: every emitted Operator token's raw text is in the operator table and is
\* the longest table member that is a prefix of the input at the token's first
\* character; every non-empty proper prefix of a table member is a table member;
\* and a>>b gives word a, operator >>, word b.
C8_Table ==
    { <<"&">>, <<"&", "&">>, <<"(">>, <<")">>, <<";">>, <<";", ";">>, <<NL>>,
      <<"|">>, <<"|", "|">>, <<"<">>, <<">">>, <<">", "|">>, <<"<", "<">>,
      <<">", ">">>, <<"<", "&">>, <<">", "&">>, <<"<", "<", "-">>, <<"<", ">">> }

\* an operator is delimited right after its last character
C8_FirstChar(tok) == tok.end_offset - Len(tok.raw)

C8_LongestAt(tok) ==
    /\ tok.raw \in C8_Table
    /\ HasPrefixAt(input, C8_FirstChar(tok), tok.raw)
    /\ \A op \in C8_Table :
          HasPrefixAt(input, C8_FirstChar(tok), op) => Len(op) <= Len(tok.raw)

C8_MaximalMunch ==
    /\ last_result.token.type = "Operator" => C8_LongestAt(last_result.token)
    /\ \A op \in C8_Table : is_operator(op)
    /\ \A op \in C8_Table : \A k \in 1..Len(op) - 1 : is_operator(SubSeq(op, 1, k))
    /\ (input = tokenize_operators /\ Finished) =>
          /\ status = "ok"
          /\ Types(tokens) = <<"Word", "Operator", "Word">>
          /\ Raws(tokens) = << <<"a">>, <<">", ">">>, <<"b">> >>

C8_Witness ==
    /\ last_result.token.type = "Operator"
    /\ last_result.token.raw = <<"<", "<", "-">>
    /\ C8_FirstChar(last_result.token) = 2
    /\ input = <<"a", "<", "<", "-">>

\* C9: when the token in progress is not an operator and the lexer is unquoted or
\* inside double quotes (not mid-escape, not in single quotes, not in a
\* here-document body), a backslash immediately followed by a newline has both
\* characters consumed, appends nothing to the token and does not end it; the
\* input a, backslash, newline, b, c is the single word abc.
C9_AtContinuation ==
    /\ Dispatching
    /\ peek_char(Cur) = BSL
    /\ pos < Len(input) /\ input[pos + 1] = NL
    /\ ~Top(Cur).state.token_is_operator
    /\ ~Top(Cur).state.in_escape
    /\ Top(Cur).state.quote_mode.kind # "Single"
    /\ here_state.kind # "InHereDocs"

C9_LineContinuation ==
    [][ /\ C9_AtContinuation
            => /\ pos' = pos + 2
               /\ stack' = stack
               /\ tokens' = tokens
               /\ status' = "running"
               /\ last_result' = last_result
        /\ (input = tokenize_line_continuation /\ status' # "running")
            => /\ status' = "ok"
               /\ Types(tokens') = <<"Word">>
               /\ Raws(tokens') = << <<"a", "b", "c">> >> ]_vars

C9_Witness ==
    /\ input = tokenize_line_continuation
    /\ status = "ok"
    /\ Raws(tokens) = << <<"a", "b", "c">> >>

\* C10: at top level a # met when no token is in progress starts a comment that
\* consumes up to, not including, the next newline or the end of input and
\* produces no token; a # met after a word has started is an ordinary character
\* of that word.  a#a is one word; a #comment newline is word a and operator
\* newline; a #comment is the word a alone.
C10_AtHash ==
    /\ Dispatching
    /\ Len(stack) = 1
    /\ peek_char(Cur) = "#"
    /\ here_state.kind # "InHereDocs"

C10_Comment ==
    [][ /\ (C10_AtHash /\ ~started_token(Top(Cur).state))
            => /\ stack' = stack /\ tokens' = tokens /\ status' = "running"
               /\ last_result' = last_result
               /\ pos' > pos
               /\ pos' > Len(input) \/ input[pos'] = NL
               /\ \A i \in pos..pos' - 1 : input[i] # NL
        /\ (C10_AtHash /\ started_token(Top(Cur).state)
                /\ ~Top(Cur).state.token_is_operator)
            => /\ Len(stack') = 1 /\ tokens' = tokens /\ status' = "running"
               /\ pos' = pos + 1
               /\ stack'[1].state.token_so_far = Append(Top(Cur).state.token_so_far, "#")
        /\ (input = <<"a", "#", "a">> /\ status' # "running")
            => status' = "ok" /\ Types(tokens') = <<"Word">>
                  /\ Raws(tokens') = << <<"a", "#", "a">> >>
        /\ (input = tokenize_comment /\ status' # "running")
            => status' = "ok" /\ Types(tokens') = <<"Word", "Operator">>
                  /\ Raws(tokens') = << <<"a">>, <<NL>> >>
        /\ (input = tokenize_comment_at_eof /\ status' # "running")
            => status' = "ok" /\ Types(tokens') = <<"Word">>
                  /\ Raws(tokens') = << <<"a">> >> ]_vars

C10_Witness ==
    /\ input = tokenize_comment
    /\ status = "ok"
    /\ Raws(tokens) = << <<"a">>, <<NL>> >>

\* C11: a backquote met unquoted or inside double quotes opens a span that ends at
\* the first later backquote not preceded by an active backslash escape (a
\* backslash escapes exactly the one following character); the span, both
\* backquotes included, is appended verbatim to the word as one
\* CommandSubstitution subtoken with no nested tokens, and nothing inside it
\* splits the word; if the input ends before the closing backquote the call fails
\* with the unterminated-backquote error at the position of the opening backquote.
\* The number of backslashes that stand right before index j, after index p
C11_BackslashRun(p, j) ==
    CHOOSE n \in 0..(j - p - 1) :
        /\ \A k \in (j - n)..(j - 1) : input[k] = BSL
        /\ j - n - 1 = p \/ input[j - n - 1] # BSL

C11_Closings(p) ==
    { j \in (p + 1)..Len(input) : input[j] = BQ /\ C11_BackslashRun(p, j) % 2 = 0 }

C11_SpanEnd(p) == CHOOSE j \in C11_Closings(p) : \A k \in C11_Closings(p) : j <= k

C11_NewSubtoken(st_before, st_after) ==
    IF st_before.quote_mode.kind = "Double"
    THEN Last(Last(st_after.subtoken_stack).subtokens)
    ELSE Last(st_after.completed_subtokens)

C11_BackquoteSpan ==
    [][ Arm("Backquote") =>
          IF C11_Closings(pos) = {}
          THEN /\ status' = "error"
               /\ error' = [kind |-> "UnterminatedBackquote", pos |-> cursor]
          ELSE LET e == C11_SpanEnd(pos)
                   span == SubSeq(input, pos, e)
                   before == Top(Cur).state
                   after == Last(stack').state
               IN  /\ status' = "running" /\ tokens' = tokens
                   /\ last_result' = last_result
                   /\ Len(stack') = Len(stack)
                   /\ pos' = e + 1
                   /\ after.token_so_far = before.token_so_far \o span
                   /\ after.quote_mode = before.quote_mode
                   /\ ~after.in_escape /\ ~after.token_is_operator
                   /\ C11_NewSubtoken(before, after) =
                         [kind |-> "CommandSubstitution", raw |-> span,
                          subtokens |-> << >>, tokens |-> << >>] ]_vars

C11_Witness ==
    /\ input = tokenize_backquote_with_escape
    /\ status = "ok"
    /\ Raws(tokens) = << <<"e", "c", "h", "o">>,
                         <<BQ, "e", "c", "h", "o", BSL, BQ, "h", "i", BQ>> >>
    /\ tokens[2].subtokens =
          << [kind |-> "CommandSubstitution", raw |-> tokens[2].raw,
              subtokens |-> << >>, tokens |-> << >>] >>

\* C12: for a closed $( ) met unquoted or inside double quotes the enclosing word
\* gets one CommandSubstitution subtoken whose nested tokens are exactly the
\* tokens the recursive calls returned up to the unquoted ), in order, and whose
\* raw text is $( followed by their raw texts joined by single spaces followed
\* by ); the substitution does not end the enclosing word: a$(echo hi)b c is the
\* words a$(echo hi)b and c.
RECURSIVE JoinWithSpaces(_)
JoinWithSpaces(raws) ==
    IF raws = << >> THEN << >>
    ELSE IF Len(raws) = 1 THEN raws[1]
    ELSE raws[1] \o <<SP>> \o JoinWithSpaces(Tail(raws))

C12_IsDollarParen(sub) ==
    sub.kind = "CommandSubstitution" /\ sub.raw # << >> /\ sub.raw[1] = "$"

RECURSIVE C12_SubtokensJoined(_)
C12_SubtokensJoined(subs) ==
    \A i \in 1..Len(subs) :
        /\ C12_IsDollarParen(subs[i]) =>
              /\ subs[i].raw = <<"$", "(">> \o JoinWithSpaces(Raws(subs[i].tokens)) \o <<")">>
              /\ \A k \in 1..Len(subs[i].tokens) :
                    C12_SubtokensJoined(subs[i].tokens[k].subtokens)
        /\ C12_SubtokensJoined(subs[i].subtokens)

C12_Returned == IF last_result'.token = NoToken THEN << >> ELSE <<last_result'.token>>

C12_ReturnsIntoSubstitution ==
    /\ Dispatching /\ Len(stack) >= 2 /\ stack[Len(stack) - 1].pc = "cmdsub"
    /\ status' = "running" /\ Len(stack') = Len(stack) - 1

C12_CommandSubstitution ==
    [][ /\ \A i \in 1..Len(tokens') : C12_SubtokensJoined(tokens'[i].subtokens)
        /\ (C12_ReturnsIntoSubstitution /\ Last(stack').pc = "cmdsub")
            => /\ last_result'.depth = Len(stack)
               /\ last_result'.reason # "SpecifiedTerminatingChar"
               /\ Last(stack').tokens = stack[Len(stack) - 1].tokens \o C12_Returned
               /\ pos' = pos \/ (pos' = pos + 1 /\ is_blank(input[pos]))
        /\ (C12_ReturnsIntoSubstitution /\ Last(stack').pc = "loop")
            => LET before == stack[Len(stack) - 1].state
                   after == Last(stack').state
                   sub == C11_NewSubtoken(before, after)
               IN  /\ Arm("TerminatingChar") /\ input[pos] = ")"
                   /\ last_result'.reason = "SpecifiedTerminatingChar"
                   /\ pos' = pos + 1
                   /\ tokens' = tokens
                   /\ sub.kind = "CommandSubstitution"
                   /\ sub.tokens = stack[Len(stack) - 1].tokens \o C12_Returned
                   /\ sub.raw = <<"$", "(">> \o JoinWithSpaces(Raws(sub.tokens)) \o <<")">>
                   /\ HasSuffix(after.token_so_far, sub.raw)
                   /\ Len(after.token_so_far) > Len(before.token_so_far)
                   /\ after.quote_mode = before.quote_mode
        /\ (input = tokenize_command_substitution /\ status' # "running")
            => /\ status' = "ok"
               /\ Types(tokens') = <<"Word", "Word">>
               /\ Raws(tokens') =
                     << <<"a", "$", "(", "e", "c", "h", "o", SP, "h", "i", ")", "b">>,
                        <<"c">> >>
               /\ Len(tokens'[1].subtokens) = 3
               /\ Raws(tokens'[1].subtokens[2].tokens) =
                     << <<"e", "c", "h", "o">>, <<"h", "i">> >> ]_vars

C12_Witness ==
    /\ shape.form = "enclosed" /\ shape.open = <<"$", "(">>
    /\ shape.before = <<DQ, "a", SP>> /\ shape.body = <<"a", SP, "a">>
    /\ status = "ok"
    /\ Len(tokens) = 1
    /\ tokens[1].raw = input
    /\ Raws(tokens[1].subtokens[1].subtokens[2].tokens) = << <<"a">>, <<"a">> >>

\* C13: a $ met unquoted or inside double quotes and followed by anything other
\* than ( or { (any other character, or the end of input) is included literally
\* in the current word's raw text as plain text; $x is the word $x and a$x is
\* the word a$x.
C13_AtPlainDollar ==
    /\ Arm("Dollar")
    /\ pos = Len(input) \/ input[pos + 1] \notin {"(", "{"}

C13_DollarLiteral ==
    [][ /\ C13_AtPlainDollar
            => /\ status' = "running" /\ Len(stack') = Len(stack)
               /\ pos' = pos + 1
               /\ Last(stack').state.token_so_far =
                     Append(Top(Cur).state.token_so_far, "$")
               /\ Last(Last(stack').state.subtoken_stack).kind = "Text"
               /\ Last(Last(Last(stack').state.subtoken_stack).raw) = "$"
        /\ (input = tokenize_unbraced_parameter_expansion /\ status' # "running")
            => status' = "ok" /\ Types(tokens') = <<"Word">>
                  /\ Raws(tokens') = << <<"$", "x">> >>
        /\ (input = tokenize_unbraced_parameter_expansion_2 /\ status' # "running")
            => status' = "ok" /\ Types(tokens') = <<"Word">>
                  /\ Raws(tokens') = << <<"a", "$", "x">> >> ]_vars

\* C14: a recursive call with a terminating character ends the substitution or
\* expansion only at an occurrence of that character that is unquoted and
\* unescaped, and returns without consuming it: the reader still points at the
\* terminator, which the caller then consumes.  An escaped } does not close ${ }:
\* a${x\}}b is the single word a${x\}}b, and ${x} is the single word ${x}.
C14_Returns ==
    /\ Dispatching /\ Len(stack) >= 2
    /\ status' = "running" /\ Len(stack') = Len(stack) - 1

C14_AtGuardedTerminator ==
    /\ Dispatching /\ Len(stack) >= 2
    /\ peek_char(Cur) = Top(Cur).terminating_char
    /\ ~unquoted(Top(Cur).state)

C14_TerminatingChar ==
    [][ /\ (C14_Returns /\ last_result'.reason = "SpecifiedTerminatingChar")
            => /\ peek_char(Cur) = Top(Cur).terminating_char
               /\ ~Top(Cur).state.in_escape
               /\ Top(Cur).state.quote_mode.kind = "None"
               /\ last_result'.token # NoToken => last_result'.token.end_offset = pos
               /\ pos' = pos + 1
               /\ Last(Last(stack').state.token_so_far) = Top(Cur).terminating_char
               /\ Last(stack').pc = "loop"
        /\ (C14_Returns /\ last_result'.reason # "SpecifiedTerminatingChar")
            => Last(stack').pc = stack[Len(stack) - 1].pc
        /\ C14_AtGuardedTerminator
            => /\ status' = "running" /\ Len(stack') = Len(stack)
               /\ pos' = pos + 1
               /\ Last(stack').state.token_so_far =
                     Append(Top(Cur).state.token_so_far, Top(Cur).terminating_char)
        /\ (input = tokenize_braced_parameter_expansion_with_escaping
                /\ status' # "running")
            => status' = "ok" /\ Types(tokens') = <<"Word">>
                  /\ Raws(tokens') = << <<"a", "$", "{", "x", BSL, "}", "}", "b">> >>
        /\ (input = tokenize_braced_parameter_expansion /\ status' # "running")
            => status' = "ok" /\ Types(tokens') = <<"Word">>
                  /\ Raws(tokens') = << <<"$", "{", "x", "}">> >> ]_vars

C14_Witness ==
    /\ shape.form = "enclosed" /\ shape.open = <<"$", "{">>
    /\ shape.before = <<"a">> /\ shape.body = <<"x", BSL, "}">>
    /\ status = "ok"
    /\ Raws(tokens) = << <<"a", "$", "{", "x", BSL, "}", "}", "b">>, <<"c">> >>

\* C15 (as written): a space or tab ends the word in progress if and only if it
\* is unquoted (not inside single or double quotes and not right after an
\* escaping backslash); an unquoted blank is consumed and never appears in any
\* token's raw text, while an escaped or quoted blank stays inside the word.
\* 1 2 3 is three words, 1\ 2 3 is 1\ 2 and 3, x'a b'y and x"a b"y are one word each.
\* The blanks of a text that are neither inside quotes nor right after a backslash
RECURSIVE C15_UnquotedBlanks(_, _, _, _)
C15_UnquotedBlanks(s, i, mode, escaped) ==
    IF i > Len(s) THEN {}
    ELSE IF escaped THEN C15_UnquotedBlanks(s, i + 1, mode, FALSE)
    ELSE IF mode = "Single"
    THEN C15_UnquotedBlanks(s, i + 1, IF s[i] = SQ THEN "None" ELSE mode, FALSE)
    ELSE IF mode = "Double"
    THEN C15_UnquotedBlanks(s, i + 1, IF s[i] = DQ THEN "None" ELSE mode, s[i] = BSL)
    ELSE (IF is_blank(s[i]) THEN {i} ELSE {})
            \cup C15_UnquotedBlanks(s, i + 1,
                    IF s[i] = SQ THEN "Single" ELSE IF s[i] = DQ THEN "Double" ELSE mode,
                    s[i] = BSL)

C15_NoUnquotedBlank(ts) ==
    \A i \in 1..Len(ts) : C15_UnquotedBlanks(ts[i].raw, 1, "None", FALSE) = {}

C15_AtBlank ==
    /\ Dispatching /\ is_blank(peek_char(Cur))
    /\ ~Top(Cur).state.token_is_operator
    /\ here_state.kind # "InHereDocs"

C15_BlankStep ==
    C15_AtBlank =>
        IF unquoted(Top(Cur).state)
        THEN /\ pos' = pos + 1
             /\ IF started_token(Top(Cur).state)
                THEN /\ Len(stack') = Len(stack) - 1
                     /\ last_result'.reason = "NonNewLineBlank"
                     /\ last_result'.token.type = "Word"
                     /\ last_result'.token.raw = Top(Cur).state.token_so_far
                     /\ Len(stack) = 1 => tokens' = Append(tokens, last_result'.token)
                ELSE stack' = stack /\ tokens' = tokens /\ last_result' = last_result
        ELSE /\ status' = "running" /\ Len(stack') = Len(stack)
             /\ pos' = pos + 1
             /\ tokens' = tokens /\ last_result' = last_result
             /\ Last(stack').state.token_so_far =
                   Append(Top(Cur).state.token_so_far, peek_char(Cur))

C15_Examples ==
    /\ (input = tokenize_whitespace /\ status' # "running")
        => status' = "ok" /\ Raws(tokens') = << <<"1">>, <<"2">>, <<"3">> >>
    /\ (input = tokenize_escaped_whitespace /\ status' # "running")
        => status' = "ok" /\ Raws(tokens') = << <<"1", BSL, SP, "2">>, <<"3">> >>
    /\ (input = tokenize_single_quote /\ status' # "running")
        => status' = "ok" /\ Raws(tokens') = << <<"x", SQ, "a", SP, "b", SQ, "y">> >>
    /\ (input = tokenize_double_quote /\ status' # "running")
        => status' = "ok" /\ Raws(tokens') = << <<"x", DQ, "a", SP, "b", DQ, "y">> >>

C15_BlankNeverInToken ==
    [][ /\ C15_BlankStep
        /\ C15_Examples
        /\ C15_NoUnquotedBlank(tokens') ]_vars

\* C15 (amended): a space or tab met by the dispatch loop while a word is in
\* progress, outside a here-document body, ends the word if and only if it is
\* unquoted; an unquoted blank met there is consumed and is not part of the token
\* it ends, a quoted or escaped one is appended to the word.  A blank inside a
\* backquote span or a here-document body is not met that way and stays in the
\* raw text, and a blank that ends a nested token of $( ) or ${ } is put back as
\* one space into the enclosing word; so a token's raw text has no unquoted blank
\* when the input has no backquote, no $ and no <<.
C15_PlainInput ==
    /\ ~Contains(input, BQ) /\ ~Contains(input, "$")
    /\ \A i \in 1..Len(input) - 1 : ~(input[i] = "<" /\ input[i + 1] = "<")

C15_BlankEndsWord ==
    [][ /\ C15_BlankStep
        /\ C15_Examples
        /\ C15_PlainInput => C15_NoUnquotedBlank(tokens') ]_vars

C15_Witness ==
    /\ input = tokenize_escaped_whitespace
    /\ status = "ok"
    /\ Raws(tokens) = << <<"1", BSL, SP, "2">>, <<"3">> >>

\* C16: inside single quotes no character other than the closing ' has any
\* effect: backslash, ", $, backquote, #, blanks, newlines and operator characters
\* are appended literally to the one open SingleQuotedText subtoken and start no
\* escape, substitution, comment or new token; inside double quotes a ' is
\* literal and opens no single-quoted region.
C16_InSingleQuotes ==
    /\ Dispatching /\ peek_char(Cur) # NoChar
    /\ Top(Cur).state.quote_mode.kind = "Single"

C16_InDoubleQuotes ==
    /\ Dispatching /\ peek_char(Cur) = SQ
    /\ Top(Cur).state.quote_mode.kind = "Double"

C16_Appended ==
    /\ status' = "running" /\ Len(stack') = Len(stack)
    /\ tokens' = tokens /\ last_result' = last_result
    /\ here_state' = here_state /\ current_here_tags' = current_here_tags
    /\ pos' = pos + 1
    /\ Last(stack').pc = "loop"
    /\ Last(stack').state.token_so_far =
          Append(Top(Cur).state.token_so_far, peek_char(Cur))
    /\ ~Last(stack').state.in_escape
    /\ ~Last(stack').state.token_is_operator

C16_SingleQuotesLiteral ==
    [][ /\ C16_InSingleQuotes
            => LET before == Top(Cur).state
                   after == Last(stack').state
               IN  /\ C16_Appended
                   /\ Len(before.subtoken_stack) = 1
                   /\ before.subtoken_stack[1].kind = "SingleQuotedText"
                   /\ IF peek_char(Cur) = SQ
                      THEN /\ after.quote_mode = QuoteNone
                           /\ after.subtoken_stack = << >>
                           /\ after.completed_subtokens =
                                 Append(before.completed_subtokens,
                                        [before.subtoken_stack[1] EXCEPT
                                            !.raw = Append(@, SQ)])
                      ELSE /\ after.quote_mode = before.quote_mode
                           /\ after.completed_subtokens = before.completed_subtokens
                           /\ after.subtoken_stack =
                                 << [before.subtoken_stack[1] EXCEPT
                                        !.raw = Append(@, peek_char(Cur))] >>
        /\ C16_InDoubleQuotes
            => /\ C16_Appended
               /\ Last(stack').state.quote_mode = Top(Cur).state.quote_mode ]_vars

C16_Witness ==
    /\ input = <<SQ, BSL, "$", SQ>>
    /\ status = "ok"
    /\ Len(tokens) = 1
    /\ tokens[1].subtokens =
          << [kind |-> "SingleQuotedText", raw |-> input, subtokens |-> << >>,
              tokens |-> << >>] >>

\* C17: if the input ends while the token being built has an open escape the call
\* fails with the unterminated-escape error; if it ends inside a single- or
\* double-quoted region the call fails with the unterminated-quote error naming
\* the quote kind and the source position of the opening quote character; an open
\* escape is reported in preference to an open quote, and both in preference to a
\* pending here-document; no token is returned.
\* The source position (1-based line and column) of the character at index i
C17_PositionOf(i) ==
    LET newlines == { k \in 1..(i - 1) : input[k] = NL }
        line_start == IF newlines = {} THEN 0
                      ELSE CHOOSE k \in newlines : \A n \in newlines : n <= k
    IN  [line |-> 1 + Cardinality(newlines), column |-> i - line_start]

C17_QuoteKept ==
    \A k \in 1..Len(stack) :
        (k <= Len(stack') /\ stack[k].state.quote_mode.kind # "None")
            => stack'[k].state.quote_mode \in {stack[k].state.quote_mode, QuoteNone}

C17_Failed(kind, at) ==
    /\ status' = "error" /\ error' = [kind |-> kind, pos |-> at]
    /\ tokens' = tokens /\ last_result' = last_result

C18_Covers(tok) ==
    \E i \in 1..Len(input) :
        /\ HasPrefixAt(input, i, tok.raw)
        /\ tok.location.start = C17_PositionOf(i)
        /\ tok.location.end = C17_PositionOf(i + Len(tok.raw))

C18_LocationCoversToken == \A k \in 1..Len(tokens) : C18_Covers(tokens[k])

\* C19: a top-level next_token call returns a result without a token only when
\* the character source is exhausted and no token text is pending; every token it
\* returns has non-empty raw text; tokenize_str on the empty input returns an
\* empty token list without error.
C19_TopLevelReturns ==
    /\ Dispatching /\ Len(stack) = 1
    /\ status' \in {"running", "ok"} /\ stack' = << >>

C19_NothingPending(st) ==
    /\ st.token_so_far = << >>
    /\ st.subtoken_stack = << >>
    /\ st.completed_subtokens = << >>

C19_NoTokenOnlyAtEnd ==
    [][ /\ C19_TopLevelReturns
            => /\ last_result'.depth = 1
               /\ IF last_result'.token = NoToken
                  THEN /\ peek_char(Cur) = NoChar /\ pos > Len(input)
                       /\ C19_NothingPending(Top(Cur).state)
                       /\ status' = "ok" /\ tokens' = tokens
                  ELSE /\ last_result'.token.raw # << >>
                       /\ status' = "running"
                       /\ tokens' = Append(tokens, last_result'.token)
        /\ status' = "ok" => (C19_TopLevelReturns /\ last_result'.token = NoToken)
        /\ (input = tokenize_empty /\ status' # "running")
            => status' = "ok" /\ tokens' = << >> ]_vars

C19_Witness ==
    /\ status = "ok"
    /\ input = <<"#", NL, SQ, SQ>>
    /\ Raws(tokens) = << <<NL>>, <<SQ, SQ>> >>
    /\ last_result.token = NoToken /\ last_result.reason = "EndOfInput"

\* C20: the iteration view over a Tokenizer is a finite sequence that ends on the
\* first error or on end of input: after it has yielded an error item every later
\* call of next yields None, and after it has yielded None at end of input it
\* never yields a token again.
C20_NoneAfterError ==
    \A i, j \in 1..Len(items) : (i < j /\ items[i] = "Err") => items[j] = "None"

C20_NoTokenAfterNone ==
    \A i, j \in 1..Len(items) : (i < j /\ items[i] = "None") => items[j] # "Token"

C20_IteratorEnds == C20_NoneAfterError /\ C20_NoTokenAfterNone

\* C21 (as written): in every call, top-level or recursive (inside $( ) or ${ }),
\* when the peeked character is #, the lexer is unquoted, not in a here-document
\* body, and no token has started, a comment is consumed through the end of the
\* line or of the input and no character of it appears in any token.
C21_AtHash ==
    /\ Dispatching /\ peek_char(Cur) = "#"
    /\ unquoted(Top(Cur).state)
    /\ here_state.kind # "InHereDocs"
    /\ ~started_token(Top(Cur).state)

C21_CommentConsumed ==
    /\ status' = "running" /\ stack' = stack /\ tokens' = tokens
    /\ last_result' = last_result
    /\ pos' > pos
    /\ pos' > Len(input) \/ input[pos'] = NL
    /\ \A i \in pos..(pos' - 1) : input[i] # NL

C21_CommentInEveryCall == [][ C21_AtHash => C21_CommentConsumed ]_vars

\* C21 (amended): in a top-level call, when the peeked character is #, the lexer
\* is unquoted, not in a here-document body, and no token has started, a comment
\* is consumed through the end of the line or of the input and no character of
\* it appears in any token; in a recursive call (inside $( ) or ${ }) such a #
\* starts no comment: it is appended as the first character of a word.
C21_CommentAtTopLevelOnly ==
    [][ /\ (C21_AtHash /\ Len(stack) = 1) => C21_CommentConsumed
        /\ (C21_AtHash /\ Len(stack) > 1)
            => /\ status' = "running" /\ Len(stack') = Len(stack)
               /\ tokens' = tokens /\ last_result' = last_result
               /\ pos' = pos + 1
               /\ Last(stack').state.token_so_far = <<"#">>
               /\ ~Last(stack').state.token_is_operator ]_vars

C21_Witness ==
    /\ shape.form = "enclosed" /\ shape.open = <<"$", "(">>
    /\ shape.before = << >> /\ shape.body = <<"#", "a", NL>>
    /\ status = "ok"
    /\ Raws(tokens) = << <<"$", "(", "#", "a", SP, NL, ")">> >>
\* C22: every change of the here-state follows an edge of the cycle None ->
\* NextTokenIsHereTag -> CurrentTokenIsHereTag -> NextLineIsHereDoc -> InHereDocs
\* -> None, and there is no other transition between two distinct here-states.
\* The values one step assigns to the here-state, in order: finalising an
\* operator first arms the state and then delimits the token.
C22_Assigned ==
    IF Arm("Operator") /\ ~ExtendsOperator(Top(Cur).state, peek_char(Cur))
          /\ started_token(Top(Cur).state)
    THEN << here_state.kind, ArmHereState(Cur, Top(Cur).state).here_state.kind,
            here_state'.kind >>
    ELSE << here_state.kind, here_state'.kind >>

C22_CycleEdges ==
    { <<"None", "NextTokenIsHereTag">>, <<"NextTokenIsHereTag", "CurrentTokenIsHereTag">>,
      <<"CurrentTokenIsHereTag", "NextLineIsHereDoc">>, <<"NextLineIsHereDoc", "InHereDocs">>,
      <<"InHereDocs", "None">> }

\* a later << or <<- re-arms the state before the body of the first has begun
C22_RearmEdges ==
    { <<"CurrentTokenIsHereTag", "NextTokenIsHereTag">>,
      <<"NextLineIsHereDoc", "NextTokenIsHereTag">> }

C22_ChangesIn(edges) ==
    \A i \in 1..Len(C22_Assigned) - 1 :
        \/ C22_Assigned[i] = C22_Assigned[i + 1]
        \/ <<C22_Assigned[i], C22_Assigned[i + 1]>> \in edges

C22_OnlyCycleEdges == [][ C22_ChangesIn(C22_CycleEdges) ]_vars

\* C22 (amended): every change of the here-state follows an edge of the cycle, or
\* is the arming by a further << or <<- operator while the state is
\* CurrentTokenIsHereTag or NextLineIsHereDoc.
C22_CycleOrRearm == [][ C22_ChangesIn(C22_CycleEdges \cup C22_RearmEdges) ]_vars

\* a <<A <<B with both bodies closed: the state went round the cycle, re-armed
\* by the second operator
C22_Witness ==
    /\ shape.form = "heredocs"
    /\ shape.tag = <<"A">>
    /\ shape.lines = << <<"x">>, <<"A">>, <<"B">> >>
    /\ status = "ok"
    /\ here_state = HereNone


\* C23: here-document handling is triggered whenever an operator token finalizes
\* as exactly << or <<-, whatever ended the operator (a following character, the
\* end of input or the terminating character of a sub-lex): once such a token is
\* emitted the here-state is no longer None and the next token is the here-tag.
C23_Emitted ==
    /\ last_result' # last_result
    /\ last_result'.token # NoToken
    /\ last_result'.token.type = "Operator"
    /\ last_result'.token.raw \in HereOperators

C23_HereOperatorArms ==
    [][ C23_Emitted => here_state'.kind = "CurrentTokenIsHereTag" ]_vars


\* C24: a sub-lex shares the cursor, the here-state and the tag queue with the
\* enclosing call: a tag queued by <<TAG inside $( ) or ${ } is still queued
\* after the sub-lex has returned, and after the next newline operator of the
\* enclosing stream the lines up to the TAG line are lexed as the body of that
\* here-document.
C24_Applies ==
    /\ shape.form = "shared"
    /\ shape.closed
    /\ \A i \in 1..Len(shape.lines) :
          /\ shape.lines[i] # shape.tag
          /\ shape.op = <<"<", "<", "-">> => StripTabs(shape.lines[i]) # shape.tag

\* the position of the newline that follows the closing ) or }
C24_AfterClose ==
    Len(shape.open) + Len(HereWord) + 1 + Len(shape.op) + Len(shape.tag) + Len(shape.close) + 1

C24_Body ==
    JoinLines([i \in 1..Len(shape.lines) |->
                  IF shape.op = <<"<", "<", "-">> THEN StripTabs(shape.lines[i])
                  ELSE shape.lines[i]])

C24_Queued ==
    /\ here_state.kind = "NextLineIsHereDoc"
    /\ current_here_tags =
          << [tag |-> <<NL>> \o shape.tag \o <<NL>>,
              remove_tabs |-> (shape.op = <<"<", "<", "-">>)] >>

C24_SubLexSharesHereDoc ==
    /\ (shape.form = "shared" /\ status = "running" /\ pos = C24_AfterClose) => C24_Queued
    /\ (C24_Applies /\ Finished) =>
          /\ status = "ok"
          /\ Types(tokens) = <<"Word", "Operator", "Word">>
          /\ SubSeq(tokens[1].raw, 1, 2) = shape.open
          /\ Last(tokens[1].raw) = Head(shape.close)
          /\ tokens[2].raw = <<NL>>
          /\ tokens[3].raw = C24_Body

C24_Witness ==
    /\ C24_Applies /\ status = "ok"
    /\ shape.open = <<"$", "(">>
    /\ shape.op = <<"<", "<", "-">>
    /\ shape.lines = << <<TAB, "x">>, <<")">> >>
    /\ tokens[1].raw = <<"$", "(", "a", SP, "<", "<", "-", SP, "T", ")">>
    /\ tokens[3].raw = <<"x", NL, ")", NL>>


\* C25: the tag queue is first-in first-out: tags are appended in the order of
\* their operators, only the head tag is matched against the body text and
\* removed, and the here-state returns to None only when the last tag has been
\* matched; with <<A <<B the body is closed by the A line first and then by the
\* B line, and a B line before the A line closes nothing.
C25_TagOf(word, op) == [tag |-> <<NL>> \o word \o <<NL>>, remove_tabs |-> (op = <<"<", "<", "-">>)]

C25_Closes(line, op, word) ==
    (IF op = <<"<", "<", "-">> THEN StripTabs(line) ELSE line) = word

\* W <<A <<B newline and a first body line that is no tag
C25_Applies ==
    /\ shape.form = "heredocs"
    /\ shape.tag = <<"A">>
    /\ shape.lines # << >>
    /\ shape.lines[1] = <<"x">>

C25_ClosedInOrder ==
    \E i, j \in 1..Len(shape.lines) :
        /\ i < j
        /\ C25_Closes(shape.lines[i], shape.op, shape.tag)
        /\ C25_Closes(shape.lines[j], shape.op2, shape.tag2)

C25_QueueInOrder ==
    current_here_tags \in
        { << >>, << C25_TagOf(shape.tag, shape.op) >>, << C25_TagOf(shape.tag2, shape.op2) >>,
          << C25_TagOf(shape.tag, shape.op), C25_TagOf(shape.tag2, shape.op2) >> }

C25_FifoQueue ==
    C25_Applies =>
        /\ C25_QueueInOrder
        /\ Finished => (status = "ok" <=> C25_ClosedInOrder)
        /\ Finished => (here_state = HereNone <=> current_here_tags = << >>)


\* C26: for every Word token on an input with no here-document operator, the raw
\* text is the in-order concatenation of the raw texts of its top-level
\* subtokens, and the raw text of every DoubleQuotedSequence subtoken is a double
\* quote, the concatenation of its nested subtokens' raw texts, and a double quote.
C26_Applies ==
    \A i \in 1..Len(input) - 1 : ~(input[i] = "<" /\ input[i + 1] = "<")

C26_WordCovered(tok) == tok.raw = Concat(Raws(tok.subtokens))

C26_DoubleQuotedCovered(sub) ==
    sub.kind = "DoubleQuotedSequence"
        => sub.raw = <<DQ>> \o Concat(Raws(sub.subtokens)) \o <<DQ>>

C26_SubtokensCoverRaw ==
    (C26_Applies /\ status = "ok") =>
        \A i \in 1..Len(tokens) :
            tokens[i].type = "Word" =>
                /\ C26_WordCovered(tokens[i])
                /\ \A j \in 1..Len(tokens[i].subtokens) :
                      C26_DoubleQuotedCovered(tokens[i].subtokens[j])


\* "a $(a)b" is one word of one double-quoted subtoken that holds a text, a
\* command substitution and a text
C26_Witness ==
    /\ shape.form = "enclosed" /\ shape.open = <<"$", "(">>
    /\ shape.before = <<DQ, "a", SP>> /\ shape.body = <<"a">>
    /\ status = "ok"
    /\ Len(tokens) = 1
    /\ Len(tokens[1].subtokens) = 1
    /\ tokens[1].subtokens[1].kind = "DoubleQuotedSequence"
    /\ Raws(tokens[1].subtokens[1].subtokens) = << <<"a", SP>>, <<"$", "(", "a", ")">>, <<"b">> >>


\* C27: once the tag line of the last pending here-document has been matched,
\* the body token is complete: the characters that follow the tag line are never
\* appended to the raw text of the body token, they begin a new token.
\* The offset of the first body character of W <<A <<B newline ...
C27_BodyStart ==
    Len(HereWord) + 1 + Len(shape.op) + Len(shape.tag) + 1
        + Len(shape.op2) + Len(shape.tag2) + 1 + 1

\* the token in progress is the body and every pending tag has been matched
C27_ClosedBody ==
    /\ shape.form = "heredocs"
    /\ Dispatching /\ Len(stack) = 1
    /\ here_state = HereNone
    /\ started_token(Top(Cur).state)
    /\ Top(Cur).state.start_offset = C27_BodyStart

C27_BodyComplete ==
    [][ C27_ClosedBody =>
            \/ stack' = << >>
            \/ stack'[1].state.start_offset # C27_BodyStart
            \/ stack'[1].state.token_so_far = stack[1].state.token_so_far ]_vars


\* C28: any line that consists of exactly the head tag and a newline terminates
\* the here-document, also when it is the first line after the operator line
\* (empty body): cat <<HERE newline HERE newline tokenizes without error.
C28_NoTagLine(lines) ==
    \A i \in 1..Len(lines) :
        /\ lines[i] # shape.tag
        /\ shape.op = <<"<", "<", "-">> => StripTabs(lines[i]) # shape.tag

\* the input ends with the first line that is exactly the tag
C28_EndsWithTagLine ==
    /\ shape.form = "heredoc"
    /\ \/ shape.closed /\ C28_NoTagLine(shape.lines)
       \/ ~shape.closed /\ Last(shape.lines) = shape.tag /\ C28_NoTagLine(Front(shape.lines))

C28_TagLineTerminates == (C28_EndsWithTagLine /\ Finished) => status = "ok"


\* C29: in every reachable state, if the here-state is None the tag queue is
\* empty, and if the here-state is NextLineIsHereDoc or InHereDocs the tag queue
\* is not empty.  States are taken between the steps of the dispatch loop; a
\* call that panicked has left no state to go on from.
C29_QueueMatchesState ==
    status # "panic" =>
        /\ here_state.kind = "None" => current_here_tags = << >>
        /\ here_state.kind \in {"NextLineIsHereDoc", "InHereDocs"} => current_here_tags # << >>

\* inside the bodies of a <<A <<B, the A line matched and B still pending
C29_Witness ==
    /\ shape.form = "heredocs"
    /\ status = "running"
    /\ here_state.kind = "InHereDocs"
    /\ current_here_tags = << C25_TagOf(shape.tag2, shape.op2) >>


\* C30: on no input does tokenization reach an internal invariant failure:
\* append_char and append_str are never called with an empty subtoken stack, the
\* subtoken on top after the loop of a $( ) is always the CommandSubstitution,
\* the assertion of the operator branch always holds, and the character consumed
\* after a SpecifiedTerminatingChar result always exists.
C30_InvariantFailures ==
    { "appending without current subtoken", "expected command substitution subtoken",
      "assertion failed: started_token", "unwrap on None" }

C30_NoInvariantFailure == ~(status = "panic" /\ error.kind \in C30_InvariantFailures)


\* $(a;a) inside a word: the sub-lex returned a word, an operator and a word, the
\* closing ) was consumed and the CommandSubstitution subtoken took the tokens
C30_Witness ==
    /\ shape.form = "enclosed" /\ shape.open = <<"$", "(">>
    /\ shape.before = <<"a">> /\ shape.body = <<"a", ";", "a">>
    /\ status = "ok"
    /\ Len(tokens) = 2
    /\ Len(tokens[1].subtokens) = 3
    /\ tokens[1].subtokens[2].kind = "CommandSubstitution"
    /\ Types(tokens[1].subtokens[2].tokens) = <<"Word", "Operator", "Word">>


====
